---- MODULE Spec2Model ----
(***************************************************************************)
(* A model of riqt/collect-card-voice: the listing-page table locator and  *)
(* positional row parser (src/src/fetch_card_text.py), the voice-section   *)
(* locator and field classifier (src/src/fetch_voice_data.py), the         *)
(* aggregation pipeline (src/main.py) and the link verifier                *)
(* (src/src/verify_links.py).                                              *)
(*                                                                         *)
(* Text is modelled as a sequence of tokens, so that Python's substring    *)
(* test `m in s` and str.strip() are computed, not assumed.  The source's  *)
(* Japanese literals are written in romanised tokens:                      *)
(*   nyuushu ji = acquisition-time      tokkun ji = training-time          *)
(*   tokkun 1 kaime / tokkun 2 kaime = training, first / second time       *)
(*   raibu kaishi = live start          kurosu boisu = cross voice         *)
(*   sukiru hatsudou = skill activation SP hatsudou = SP activation        *)
(*   enshutsu = staging                 boisu = voice                      *)
(*   rearitei = rarity, kaado mei = card name, shoshutsu gacha = first     *)
(*   gacha, sumairu / pyua / kuuru = smile / pure / cool,                  *)
(*   jissou kaado = implemented card, kaado ichiran = card list            *)
(***************************************************************************)
EXTENDS Integers, Sequences, FiniteSets, TLC

VARIABLES
    L_soup, L_k, L_pc, L_table,             \* find_card_table
    P_table, P_headers, P_r, P_pc, P_cards, \* parse_card_table
    \* extract_voice_data: the page served, the position in the function, the
    \* heading scanned, the heading and the div found, the row at hand,
    \* voice_data, the branch each row took, and the value returned
    V_page, V_pc, V_h, V_section, V_div, V_r, V_data, V_taken, V_result,
    \* main: the listing page served, the position, cards, the listing CSV,
    \* df and the loop index, the addresses requested and the pages served
    \* for them, and the output CSV
    M_listing, M_pc, M_cards, M_csv, M_df, M_index, M_fetched, M_served, M_out,
    \* verify_all_links: the rows, the row at hand, the position, the requests
    \* issued, what verify_link returned, and the three result lists
    K_data, K_i, K_pc, K_log, K_ret, K_results

locVars == <<L_soup, L_k, L_pc, L_table>>
parVars == <<P_table, P_headers, P_r, P_pc, P_cards>>
voiceVars == <<V_page, V_pc, V_h, V_section, V_div, V_r, V_data, V_taken, V_result>>
mainVars == <<M_listing, M_pc, M_cards, M_csv, M_df, M_index, M_fetched, M_served, M_out>>
linkVars == <<K_data, K_i, K_pc, K_log, K_ret, K_results>>
vars == <<locVars, parVars, voiceVars, mainVars, linkVars>>

\* What each component's steps leave alone: the other components' state.
L_others == <<parVars, voiceVars, mainVars, linkVars>>
P_others == <<locVars, voiceVars, mainVars, linkVars>>
V_others == <<locVars, parVars, mainVars, linkVars>>
M_others == <<locVars, parVars, voiceVars, linkVars>>
K_others == <<locVars, parVars, voiceVars, mainVars>>

-----------------------------------------------------------------------------
(* Text *)

\* Python `m in s` for strings: m occurs in s as a contiguous run.
Contains(s, m) ==
    \E i \in 0..(Len(s) - Len(m)) : SubSeq(s, i + 1, i + Len(m)) = m

IsSpace(c) == c = " "

RECURSIVE LStrip(_)
LStrip(s) ==
    IF s = <<>> THEN <<>>
    ELSE IF IsSpace(Head(s)) THEN LStrip(Tail(s)) ELSE s

RECURSIVE RStrip(_)
RStrip(s) ==
    IF s = <<>> THEN <<>>
    ELSE IF IsSpace(s[Len(s)]) THEN RStrip(SubSeq(s, 1, Len(s) - 1)) ELSE s

\* str.strip(), and get_text(strip=True) of an element holding one text node.
Strip(s) == RStrip(LStrip(s))

\* All sequences over S of length 0..n.
SeqsUpTo(S, n) == UNION {[1..m -> S] : m \in 0..n}

-----------------------------------------------------------------------------
(* Table Locator: CardFetcher.find_card_table *)

MaxItems == 3

th_rarity == <<"rearitei">>
th_name == <<"kaado", "mei">>
required_headers == {th_rarity, th_name}
optional_headers == {<<"shoshutsu", "gacha">>, <<"sumairu">>, <<"pyua">>, <<"kuuru">>}

mk_jissou_kaado == <<"jissou", "kaado">>
mk_kaado_ichiran == <<"kaado", "ichiran">>

Heading(level, text) == [kind |-> "h", level |-> level, text |-> text]
Table(ths) == [kind |-> "table", ths |-> ths]

\* The listing documents' elements, in document order: headings of a level
\* with their text, and tables with the raw texts of their th cells.
ListingItems ==
    { Heading(2, <<"jissou", "kaado", "ichiran">>),
      Heading(3, <<" ", "kaado", "ichiran", " ">>),
      Heading(4, <<"jissou", "kaado">>),
      Heading(2, <<"gaiyou">>),
      Heading(5, <<"kaado", "ichiran">>),
      Table(<<th_rarity, th_name, <<"shoshutsu", "gacha">> >>),
      Table(<< <<" ", "kaado", "mei", " ">>, <<"sumairu">>, th_rarity, <<"bikou">> >>),
      Table(<<th_rarity, th_name>>),
      Table(<<th_name, <<"kuuru">> >>),
      Table(<< <<"rearitei", "ichiran">>, th_name, <<"pyua">> >>),
      Table(<<>>) }

IsTable(soup, i) == soup[i].kind = "table"

\* soup.find_all('table'): the tables' positions, in document order.
RECURSIVE FindAllTables(_, _)
FindAllTables(soup, i) ==
    IF i > Len(soup) THEN <<>>
    ELSE (IF IsTable(soup, i) THEN <<i>> ELSE <<>>) \o FindAllTables(soup, i + 1)

\* [th.get_text(strip=True) for th in table.find_all('th')], as a set:
\* the code only tests membership.
HeaderTexts(soup, i) == {Strip(soup[i].ths[j]) : j \in 1..Len(soup[i].ths)}

HasRequiredAny(soup, i) == \E h \in required_headers : h \in HeaderTexts(soup, i)
HasRequired(soup, i) == \A h \in required_headers : h \in HeaderTexts(soup, i)
HasOptional(soup, i) == \E h \in optional_headers : h \in HeaderTexts(soup, i)

IsHeadingTag(soup, j) == soup[j].kind = "h" /\ soup[j].level \in 2..4

\* table.find_previous(['h2','h3','h4']): the nearest preceding heading, 0 if none.
FindPrevious(soup, i) ==
    LET hs == {j \in 1..(i - 1) : IsHeadingTag(soup, j)}
    IN  IF hs = {} THEN 0 ELSE CHOOSE j \in hs : \A m \in hs : m <= j

HeadingMatches(soup, i) ==
    LET p == FindPrevious(soup, i)
    IN  /\ p # 0
        /\ LET heading_text == Strip(soup[p].text)
           IN  \/ Contains(heading_text, mk_jissou_kaado)
               \/ Contains(heading_text, mk_kaado_ichiran)

L_Idle == L_soup = <<>> /\ L_k = 1 /\ L_pc = "idle" /\ L_table = 0

L_Start ==
    /\ L_soup \in SeqsUpTo(ListingItems, MaxItems)
    /\ L_k = 1
    /\ L_pc = "loop"
    /\ L_table = 0

L_tables == FindAllTables(L_soup, 1)

\* line 81-82: the header-shape test succeeds for the table at hand
L_ReturnByHeaders ==
    /\ L_pc = "loop"
    /\ L_k <= Len(L_tables)
    /\ HasRequired(L_soup, L_tables[L_k]) /\ HasOptional(L_soup, L_tables[L_k])
    /\ L_table' = L_tables[L_k]
    /\ L_pc' = "done"
    /\ UNCHANGED <<L_soup, L_k, L_others>>

\* line 85-89: otherwise the same table is tested against its preceding heading
L_ReturnByHeading ==
    /\ L_pc = "loop"
    /\ L_k <= Len(L_tables)
    /\ ~(HasRequired(L_soup, L_tables[L_k]) /\ HasOptional(L_soup, L_tables[L_k]))
    /\ HeadingMatches(L_soup, L_tables[L_k])
    /\ L_table' = L_tables[L_k]
    /\ L_pc' = "done"
    /\ UNCHANGED <<L_soup, L_k, L_others>>

L_NextTable ==
    /\ L_pc = "loop"
    /\ L_k <= Len(L_tables)
    /\ ~(HasRequired(L_soup, L_tables[L_k]) /\ HasOptional(L_soup, L_tables[L_k]))
    /\ ~HeadingMatches(L_soup, L_tables[L_k])
    /\ L_k' = L_k + 1
    /\ UNCHANGED <<L_soup, L_pc, L_table, L_others>>

\* line 91
L_ReturnNone ==
    /\ L_pc = "loop"
    /\ L_k > Len(L_tables)
    /\ L_table' = 0
    /\ L_pc' = "done"
    /\ UNCHANGED <<L_soup, L_k, L_others>>

L_Next ==
    \/ L_ReturnByHeaders
    \/ L_ReturnByHeading
    \/ L_NextTable
    \/ L_ReturnNone

\* The rules as the specification words them, over a document alone.
Rule_A(soup, i) ==
    /\ required_headers \subseteq HeaderTexts(soup, i)
    /\ optional_headers \cap HeaderTexts(soup, i) # {}

Rule_B(soup, i) ==
    \E j \in 1..(i - 1) :
        /\ soup[j].kind = "h" /\ soup[j].level \in {2, 3, 4}
        /\ \A m \in (j + 1)..(i - 1) : ~(soup[m].kind = "h" /\ soup[m].level \in {2, 3, 4})
        /\ \/ Contains(Strip(soup[j].text), <<"jissou", "kaado">>)
           \/ Contains(Strip(soup[j].text), <<"kaado", "ichiran">>)

C1_RuleA(i) == Rule_A(L_soup, i)
C1_RuleB(i) == Rule_B(L_soup, i)

C1_TablesOf == {i \in 1..Len(L_soup) : L_soup[i].kind = "table"}

C1_First(S) == IF S = {} THEN 0 ELSE CHOOSE i \in S : \A j \in S : i <= j

\* C1 (as claimed): whenever some table satisfies Rule A, find_card_table
\* returns the first Rule-A table in document order; Rule B is consulted only
\* when no table of the whole document satisfies Rule A.
C1_RuleABeforeRuleB ==
    (L_pc = "done" /\ \E i \in C1_TablesOf : C1_RuleA(i))
        => L_table = C1_First({i \in C1_TablesOf : C1_RuleA(i)})

\* C1 (amended): find_card_table returns the first table in document order
\* that satisfies Rule A or Rule B (each table is tested against Rule A and
\* then Rule B before the next table is looked at), and None only when no
\* table satisfies either rule.
C1_FirstTableMatchingEitherRule ==
    L_pc = "done"
        => L_table = C1_First({i \in C1_TablesOf : C1_RuleA(i) \/ C1_RuleB(i)})

\* An earlier table that satisfies only Rule B has been returned although a
\* later table satisfies Rule A.
C1_Witness ==
    /\ L_pc = "done" /\ L_table # 0
    /\ ~C1_RuleA(L_table) /\ C1_RuleB(L_table)
    /\ \E i \in C1_TablesOf : i > L_table /\ C1_RuleA(i)
-----------------------------------------------------------------------------
(* Positional Row Parser: CardFetcher.parse_card_table *)

MaxCells == 2
MaxDataRows == 2

\* Raw cell texts of a first row and of a data row.
HeaderCellTexts == {<<"A">>, <<" ", "B", " ">>}
DataCellTexts == {<<" ", "x", " ">>, <<>>}

\* A table is the sequence of its tr rows, a row the sequence of the raw
\* texts of its th/td cells; a table may hold no row at all.
ParseTables ==
    {<<>>} \cup
    { <<h>> \o d : h \in SeqsUpTo(HeaderCellTexts, MaxCells),
                   d \in SeqsUpTo(SeqsUpTo(DataCellTexts, MaxCells), MaxDataRows) }

EmptyDict == [k \in {} |-> <<>>]

\* d.setdefault(key, value): a mutation of DictSet that keeps the first value.
DictSetDefault(d, key, value) ==
    [k \in DOMAIN d \cup {key} |-> IF k \in DOMAIN d THEN d[k] ELSE value]

\* d[key] = value
DictSet(d, key, value) ==
    [k \in DOMAIN d \cup {key} |-> IF k = key THEN value ELSE d[k]]

\* line 107-110: the texts of the first row's cells
HeaderRow(table) ==
    IF table = <<>> THEN <<>>
    ELSE [i \in 1..Len(table[1]) |-> Strip(table[1][i])]

\* line 125-130: the loop over a row's cells, from cell i on (1-based here)
RECURSIVE CardData(_, _, _, _)
CardData(headers, cells, i, card_data) ==
    IF i > Len(cells) THEN card_data
    ELSE CardData(headers, cells, i + 1,
                  IF i <= Len(headers)
                  THEN DictSet(card_data, headers[i], Strip(cells[i]))
                  ELSE card_data)

\* line 132-133: `if card_data: cards.append(card_data)`
AppendCard(cards, card_data) ==
    IF card_data # EmptyDict THEN Append(cards, card_data) ELSE cards

P_Idle ==
    P_table = <<>> /\ P_headers = <<>> /\ P_r = 0 /\ P_pc = "idle" /\ P_cards = <<>>

P_Start ==
    /\ P_table \in ParseTables
    /\ P_headers = <<>>
    /\ P_r = 0
    /\ P_pc = "headers"
    /\ P_cards = <<>>

\* line 105-110
P_ReadHeaders ==
    /\ P_pc = "headers"
    /\ P_headers' = HeaderRow(P_table)
    /\ P_pc' = "check"
    /\ UNCHANGED <<P_table, P_r, P_cards, P_others>>

\* line 112-114
P_NoHeaders ==
    /\ P_pc = "check"
    /\ P_headers = <<>>
    /\ P_pc' = "done"
    /\ UNCHANGED <<P_table, P_headers, P_r, P_cards, P_others>>

\* line 119: rows = table.find_all('tr')[1:]
P_EnterLoop ==
    /\ P_pc = "check"
    /\ P_headers # <<>>
    /\ P_r' = 2
    /\ P_pc' = "rows"
    /\ UNCHANGED <<P_table, P_headers, P_cards, P_others>>

\* line 121-123
P_SkipRow ==
    /\ P_pc = "rows"
    /\ P_r <= Len(P_table)
    /\ Len(P_table[P_r]) = 0
    /\ P_r' = P_r + 1
    /\ UNCHANGED <<P_table, P_headers, P_pc, P_cards, P_others>>

\* line 125-133
P_ParseRow ==
    /\ P_pc = "rows"
    /\ P_r <= Len(P_table)
    /\ Len(P_table[P_r]) # 0
    /\ P_cards' = AppendCard(P_cards, CardData(P_headers, P_table[P_r], 1, EmptyDict))
    /\ P_r' = P_r + 1
    /\ UNCHANGED <<P_table, P_headers, P_pc, P_others>>

\* line 135
P_Return ==
    /\ P_pc = "rows"
    /\ P_r > Len(P_table)
    /\ P_pc' = "done"
    /\ UNCHANGED <<P_table, P_headers, P_r, P_cards, P_others>>

P_Next ==
    \/ P_ReadHeaders
    \/ P_NoHeaders
    \/ P_EnterLoop
    \/ P_SkipRow
    \/ P_ParseRow
    \/ P_Return

\* The header template and the non-empty data rows of the parsed table.
C7_H == IF P_table = <<>> THEN <<>> ELSE [i \in 1..Len(P_table[1]) |-> Strip(P_table[1][i])]

C7_DataRows == {r \in 2..Len(P_table) : Len(P_table[r]) > 0}

\* The k-th smallest element of a set of numbers.
C7_Nth(S, k) == CHOOSE r \in S : Cardinality({q \in S : q <= r}) = k

C7_Min(a, b) == IF a < b THEN a ELSE b

\* What holds of every table: one record per non-empty data row, in row
\* order (none when the first row is empty); its keys are exactly the H[i]
\* with i < min(len(R), len(H)).
C7_Shape ==
    /\ (C7_H = <<>>) => P_cards = <<>>
    /\ (C7_H # <<>>) =>
          /\ Len(P_cards) = Cardinality(C7_DataRows)
          /\ \A k \in 1..Len(P_cards) :
                LET R == P_table[C7_Nth(C7_DataRows, k)]
                IN  DOMAIN P_cards[k] = {C7_H[i] : i \in 1..C7_Min(Len(R), Len(C7_H))}

\* C7 (as claimed): for every header template, repeated labels included, the
\* record of data row R maps H[i] to the trimmed text of cell i for every
\* i < min(len(R), len(H)); keys beyond the row are absent, cells beyond the
\* template add no key, zero-cell rows emit nothing, records follow row order,
\* and an empty first row yields an empty result.
C7_PositionalMapping ==
    P_pc = "done" =>
        /\ C7_Shape
        /\ \A k \in 1..Len(P_cards) :
              LET R == P_table[C7_Nth(C7_DataRows, k)]
              IN  \A i \in 1..C7_Min(Len(R), Len(C7_H)) :
                      P_cards[k][C7_H[i]] = Strip(R[i])

\* C7 (amended): as claimed, except that a label L of the template is mapped
\* to the trimmed text of the cell at the LAST index i < min(len(R), len(H))
\* with H[i] = L; this is the cell at i whenever the labels are distinct.
C7_LastIndexWins ==
    P_pc = "done" =>
        /\ C7_Shape
        /\ \A k \in 1..Len(P_cards) :
              LET R == P_table[C7_Nth(C7_DataRows, k)]
                  n == C7_Min(Len(R), Len(C7_H))
              IN  \A i \in 1..n :
                      (\A j \in (i + 1)..n : C7_H[j] # C7_H[i])
                          => P_cards[k][C7_H[i]] = Strip(R[i])

\* A row has been parsed under a template with a repeated label whose two
\* cells differ, after a zero-cell row was skipped.
C7_Witness ==
    /\ P_pc = "done"
    /\ Len(P_cards) >= 1
    /\ \E r \in C7_DataRows :
          /\ Len(P_table[r]) >= 2 /\ Len(C7_H) >= 2
          /\ C7_H[1] = C7_H[2]
          /\ Strip(P_table[r][1]) # Strip(P_table[r][2])
    /\ \E r \in 2..Len(P_table) : Len(P_table[r]) = 0

-----------------------------------------------------------------------------
(* Section Locator and Field Classifier: extract_voice_data *)

MaxNodes == 3
MaxRows == 2

\* The keys of the voice_data dict, in the order of its literal.
k_nyuushuji == "nyuushuji"
k_tokkunji == "tokkunji"
k_tokkun1 == "tokkun1kaime"
k_tokkun2 == "tokkun2kaime"
k_raibu == "raibukaishi"
k_sukiru == "sukiruhatsudou"
k_kurosu == "sukiruhatsudou(kurosuboisu)"
k_sp == "SPhatsudou"

VoiceKeys == {k_nyuushuji, k_tokkunji, k_tokkun1, k_tokkun2, k_raibu, k_sukiru, k_kurosu, k_sp}

\* The substrings the labels are tested for.
mk_nyuushuji == <<"nyuushu", "ji">>
mk_tokkun1 == <<"tokkun", "1", "kaime">>
mk_tokkun2 == <<"tokkun", "2", "kaime">>
mk_tokkunji == <<"tokkun", "ji">>
mk_raibu == <<"raibu", "kaishi">>
mk_kurosu == <<"kurosu", "boisu">>
mk_sukiru == <<"sukiru", "hatsudou">>
mk_sp == <<"SP", "hatsudou">>
mk_sp_sukiru == <<"SP", " ", "sukiru", "hatsudou">>
mk_enshutsu == <<"enshutsu">>
mk_boisu == <<"boisu">>

\* line 20-29
InitialVoiceData == [k \in VoiceKeys |-> <<>>]

\* A mutation of ExceptResult: the second literal has lost a key.
ExceptResultShort == [k \in VoiceKeys \ {k_sp} |-> <<>>]

\* line 80-89
ExceptResult == [k \in VoiceKeys |-> <<>>]

\* A mutation of Branch: rule 7 without its guard on the slot.
BranchUnguarded(voice_data, type_text) ==
    IF Contains(type_text, mk_nyuushuji) THEN k_nyuushuji
    ELSE IF Contains(type_text, mk_tokkun1) THEN k_tokkun1
    ELSE IF Contains(type_text, mk_tokkun2) THEN k_tokkun2
    ELSE IF Contains(type_text, mk_tokkunji) THEN k_tokkunji
    ELSE IF Contains(type_text, mk_raibu) THEN k_raibu
    ELSE IF Contains(type_text, mk_kurosu) THEN k_kurosu
    ELSE IF Contains(type_text, mk_sukiru) THEN k_sukiru
    ELSE IF Contains(type_text, mk_sp) \/ Contains(type_text, mk_sp_sukiru) THEN k_sp
    ELSE "none"

\* line 58-73: the branch of the if/elif chain a label takes, as the key it
\* assigns ("none": no branch).
Branch(voice_data, type_text) ==
    IF Contains(type_text, mk_nyuushuji) THEN k_nyuushuji
    ELSE IF Contains(type_text, mk_tokkun1) THEN k_tokkun1
    ELSE IF Contains(type_text, mk_tokkun2) THEN k_tokkun2
    ELSE IF Contains(type_text, mk_tokkunji) THEN k_tokkunji
    ELSE IF Contains(type_text, mk_raibu) THEN k_raibu
    ELSE IF Contains(type_text, mk_kurosu) THEN k_kurosu
    ELSE IF Contains(type_text, mk_sukiru) /\ voice_data[k_sukiru] = <<>> THEN k_sukiru
    ELSE IF Contains(type_text, mk_sp) \/ Contains(type_text, mk_sp_sukiru) THEN k_sp
    ELSE "none"

\* A mutation of Store: a slot once filled is kept.
StoreIfEmpty(voice_data, key, message_text) ==
    IF voice_data[key] = <<>> THEN [voice_data EXCEPT ![key] = message_text] ELSE voice_data

\* voice_data[key] = message_text
Store(voice_data, key, message_text) == [voice_data EXCEPT ![key] = message_text]

\* line 52-73: the branch taken by one row ("short": fewer than 2 cells)
RowBranch(voice_data, cells) ==
    IF Len(cells) >= 2 THEN Branch(voice_data, Strip(cells[1])) ELSE "short"

\* line 52-73: the body of the loop over the rows
ClassifyRow(voice_data, cells) ==
    LET b == RowBranch(voice_data, cells)
    IN  IF b \in {"short", "none"} THEN voice_data
        ELSE Store(voice_data, b, Strip(cells[2]))

\* line 36
IsVoiceHeading(node) ==
    Contains(node.text, mk_enshutsu) /\ Contains(node.text, mk_boisu)

\* line 32: soup.find_all(['h2','h3','h4']), as positions among the siblings
RECURSIVE FindAllHeadings(_, _)
FindAllHeadings(nodes, i) ==
    IF i > Len(nodes) THEN <<>>
    ELSE (IF nodes[i].kind = "h" /\ nodes[i].level \in 2..4 THEN <<i>> ELSE <<>>)
            \o FindAllHeadings(nodes, i + 1)

\* A mutation of FindNextSiblingDiv: only the very next sibling is looked at.
NextSiblingIfDiv(nodes, i) ==
    IF i + 1 <= Len(nodes) /\ nodes[i + 1].kind = "div" THEN i + 1 ELSE 0

\* line 45: voice_section.find_next_sibling('div'), 0 for None
FindNextSiblingDiv(nodes, i) ==
    LET ds == {j \in (i + 1)..Len(nodes) : nodes[j].kind = "div"}
    IN  IF ds = {} THEN 0 ELSE CHOOSE j \in ds : \A m \in ds : j <= m

\* Labels and messages of the voice table's rows, as raw cell texts.
VoiceLabels ==
    { <<"nyuushu", "ji">>,
      <<" ", "tokkun", "ji", " ">>,
      <<"tokkun", "ji", "(", "tokkun", "1", "kaime", ")">>,
      <<"tokkun", "2", "kaime", "(", "tokkun", "ji", ")">>,
      <<"raibu", "kaishi">>,
      <<"sukiru", "hatsudou">>,
      <<"sukiru", "hatsudou", "(", "kurosu", "boisu", ")">>,
      <<"SP", "hatsudou">>,
      <<"SP", " ", "sukiru", "hatsudou">>,
      <<"kizuna">> }

VoiceMessages == {<<" ">>, <<"m1">>, <<" ", "m2", " ">>}

VoiceRows ==
    {<<l, m>> : l \in VoiceLabels, m \in VoiceMessages} \cup {<<mk_sukiru>>}

HNode(level, text) == [kind |-> "h", level |-> level, text |-> text]
\* A div holds a table (the sequence of its rows) or none.
DivNode(has_table, rows) == [kind |-> "div", has_table |-> has_table, table |-> rows]
PNode == [kind |-> "p"]

\* Nothing returned yet.
NoResult == <<>>

\* The siblings a detail page is built from.
SectionNodes ==
    { HNode(2, <<"enshutsu", "/", "boisu">>),
      HNode(3, <<"boisu", "to", "enshutsu">>),
      HNode(2, <<"boisu">>),
      HNode(4, <<"sukiru">>),
      HNode(5, <<"enshutsu", "/", "boisu">>),
      PNode,
      DivNode(FALSE, <<>>),
      DivNode(TRUE, << <<mk_nyuushuji, <<"m1">> >> >>),
      DivNode(TRUE, << <<mk_sukiru, <<"m2">> >>, <<mk_sp, <<"m1">> >> >>) }

OkPage(nodes) == [outcome |-> "ok", nodes |-> nodes]
\* requests.get or the parser raised
ErrorPage == [outcome |-> "error", nodes |-> <<>>]

\* Pages that vary in structure, and pages that vary in the rows of the
\* voice table.
SectionPages == {OkPage(n) : n \in SeqsUpTo(SectionNodes, MaxNodes)} \cup {ErrorPage}
ClassifierPages ==
    {OkPage(<<HNode(2, <<"enshutsu", "/", "boisu">>), DivNode(TRUE, t)>>) :
        t \in SeqsUpTo(VoiceRows, MaxRows)}

V_Idle ==
    /\ V_page = ErrorPage /\ V_pc = "idle" /\ V_h = 0 /\ V_section = 0 /\ V_div = 0
    /\ V_r = 0 /\ V_data = InitialVoiceData /\ V_taken = <<>> /\ V_result = NoResult

V_Start ==
    /\ V_page \in SectionPages \cup ClassifierPages
    /\ V_pc = "fetch"
    /\ V_h = 0 /\ V_section = 0 /\ V_div = 0 /\ V_r = 0
    /\ V_data = InitialVoiceData
    /\ V_taken = <<>>
    /\ V_result = NoResult

V_headers == FindAllHeadings(V_page.nodes, 1)

\* line 15-32: the page is fetched and parsed, voice_data is created
V_Fetch ==
    /\ V_pc = "fetch"
    /\ V_page.outcome = "ok"
    /\ V_data' = InitialVoiceData
    /\ V_h' = 1
    /\ V_pc' = "scan"
    /\ UNCHANGED <<V_page, V_section, V_div, V_r, V_taken, V_result, V_others>>

\* line 78-89
V_Except ==
    /\ V_pc = "fetch"
    /\ V_page.outcome = "error"
    /\ V_result' = ExceptResult
    /\ V_pc' = "done"
    /\ UNCHANGED <<V_page, V_h, V_section, V_div, V_r, V_data, V_taken, V_others>>

\* line 35-36: a heading that does not match
V_ScanNext ==
    /\ V_pc = "scan"
    /\ V_h <= Len(V_headers)
    /\ ~IsVoiceHeading(V_page.nodes[V_headers[V_h]])
    /\ V_h' = V_h + 1
    /\ UNCHANGED <<V_page, V_pc, V_section, V_div, V_r, V_data, V_taken, V_result, V_others>>

\* line 36-38, 45
V_ScanMatch ==
    /\ V_pc = "scan"
    /\ V_h <= Len(V_headers)
    /\ IsVoiceHeading(V_page.nodes[V_headers[V_h]])
    /\ V_section' = V_headers[V_h]
    /\ V_div' = FindNextSiblingDiv(V_page.nodes, V_headers[V_h])
    /\ V_pc' = "div"
    /\ UNCHANGED <<V_page, V_h, V_r, V_data, V_taken, V_result, V_others>>

\* line 40-42
V_NotFound ==
    /\ V_pc = "scan"
    /\ V_h > Len(V_headers)
    /\ V_result' = V_data
    /\ V_pc' = "done"
    /\ UNCHANGED <<V_page, V_h, V_section, V_div, V_r, V_data, V_taken, V_others>>

\* line 46, 75-76: no div follows
V_NoDiv ==
    /\ V_pc = "div"
    /\ V_div = 0
    /\ V_result' = V_data
    /\ V_pc' = "done"
    /\ UNCHANGED <<V_page, V_h, V_section, V_div, V_r, V_data, V_taken, V_others>>

\* line 48-49, 75-76: the div holds no table
V_NoTable ==
    /\ V_pc = "div"
    /\ V_div # 0
    /\ ~V_page.nodes[V_div].has_table
    /\ V_result' = V_data
    /\ V_pc' = "done"
    /\ UNCHANGED <<V_page, V_h, V_section, V_div, V_r, V_data, V_taken, V_others>>

\* line 50
V_EnterRows ==
    /\ V_pc = "div"
    /\ V_div # 0
    /\ V_page.nodes[V_div].has_table
    /\ V_r' = 1
    /\ V_pc' = "rows"
    /\ UNCHANGED <<V_page, V_h, V_section, V_div, V_data, V_taken, V_result, V_others>>

\* line 51-73: one row of the table
V_Row ==
    /\ V_pc = "rows"
    /\ V_r <= Len(V_page.nodes[V_div].table)
    /\ LET cells == V_page.nodes[V_div].table[V_r]
       IN  /\ V_data' = ClassifyRow(V_data, cells)
           /\ V_taken' = Append(V_taken, RowBranch(V_data, cells))
    /\ V_r' = V_r + 1
    /\ UNCHANGED <<V_page, V_pc, V_h, V_section, V_div, V_result, V_others>>

\* line 75-76
V_Return ==
    /\ V_pc = "rows"
    /\ V_r > Len(V_page.nodes[V_div].table)
    /\ V_result' = V_data
    /\ V_pc' = "done"
    /\ UNCHANGED <<V_page, V_h, V_section, V_div, V_r, V_data, V_taken, V_others>>

V_Next ==
    \/ V_Fetch
    \/ V_Except
    \/ V_ScanNext
    \/ V_ScanMatch
    \/ V_NotFound
    \/ V_NoDiv
    \/ V_NoTable
    \/ V_EnterRows
    \/ V_Row
    \/ V_Return

\* The rows of the table being classified (none before a div is found).
V_rows == IF V_div = 0 THEN <<>> ELSE V_page.nodes[V_div].table

\* A step of the row loop.
V_RowStep == V_pc = "rows" /\ V_pc' = "rows" /\ V_r' = V_r + 1

\* The overlapping (specific markers, specific slot, generic marker, generic slot).
C2_Pairs ==
    { <<{<<"tokkun", "1", "kaime">>}, "tokkun1kaime", <<"tokkun", "ji">>, "tokkunji">>,
      <<{<<"tokkun", "2", "kaime">>}, "tokkun2kaime", <<"tokkun", "ji">>, "tokkunji">>,
      <<{<<"kurosu", "boisu">>}, "sukiruhatsudou(kurosuboisu)",
        <<"sukiru", "hatsudou">>, "sukiruhatsudou">>,
      <<{<<"SP", "hatsudou">>, <<"SP", " ", "sukiru", "hatsudou">>}, "SPhatsudou",
        <<"sukiru", "hatsudou">>, "sukiruhatsudou">> }

C2_Law(pairs) ==
    V_RowStep =>
        LET cells == V_rows[V_r]
        IN  Len(cells) >= 2 =>
              \A p \in pairs :
                  ( /\ \E s \in p[1] : Contains(Strip(cells[1]), s)
                    /\ Contains(Strip(cells[1]), p[3]) )
                  => /\ V_data'[p[2]] = Strip(cells[2])
                     /\ V_data'[p[4]] = V_data[p[4]]

\* C2: for every label and every prior state of the record, a label that
\* contains a specific marker and the overlapping generic marker is stored in
\* the specific slot and never in the generic one, for every overlapping pair
\* (training first/second vs training-time, cross voice vs skill activation,
\* SP activation in both spellings vs skill activation).
C2_SpecificBeforeGeneric == [][C2_Law(C2_Pairs)]_vars

\* Rule 7's label test: the generic marker and none of the markers of rules 1-6.
C3_GenericMatch(cells) ==
    /\ Len(cells) >= 2
    /\ Contains(Strip(cells[1]), <<"sukiru", "hatsudou">>)
    /\ \A m \in { <<"nyuushu", "ji">>, <<"tokkun", "1", "kaime">>, <<"tokkun", "2", "kaime">>,
                  <<"tokkun", "ji">>, <<"raibu", "kaishi">>, <<"kurosu", "boisu">> } :
          ~Contains(Strip(cells[1]), m)

C3_HasSpMarker(cells) ==
    \/ Contains(Strip(cells[1]), <<"SP", "hatsudou">>)
    \/ Contains(Strip(cells[1]), <<"SP", " ", "sukiru", "hatsudou">>)

MinOf(S) == IF S = {} THEN 0 ELSE CHOOSE i \in S : \A j \in S : i <= j

\* The first generic-matching row among rows 1..n, and the first one whose
\* trimmed message is not empty (0: none).
C3_FirstGeneric(n) == MinOf({k \in 1..n : C3_GenericMatch(V_rows[k])})
C3_FirstStored(n) ==
    MinOf({k \in 1..n : C3_GenericMatch(V_rows[k]) /\ Strip(V_rows[k][2]) # <<>>})

C3_MessageOf(k) == IF k = 0 THEN <<>> ELSE Strip(V_rows[k][2])

\* C3 (as claimed): the generic skill-activation slot ends as the message of
\* the first generic-matching row in document order, whatever the messages
\* (an empty first message included), and every later generic-matching row
\* changes no slot of the record.
C3_FirstWriteWins ==
    /\ [](V_pc \in {"rows", "done"} /\ V_div # 0
            => V_data["sukiruhatsudou"] = C3_MessageOf(C3_FirstGeneric(V_r - 1)))
    /\ [][(V_RowStep /\ C3_GenericMatch(V_rows[V_r]) /\ C3_FirstGeneric(V_r - 1) # 0)
            => V_data' = V_data]_vars

\* C3 (amended): the generic slot holds the message of the first
\* generic-matching row whose trimmed message is not empty (the empty string
\* while there is none); every generic-matching row after that one leaves the
\* generic slot as it is, and changes no slot at all unless its label also
\* contains an SP-activation marker, in which case it overwrites the
\* SP-activation slot and nothing else.
C3_FirstNonEmptyWriteWins ==
    /\ [](V_pc \in {"rows", "done"} /\ V_div # 0
            => V_data["sukiruhatsudou"] = C3_MessageOf(C3_FirstStored(V_r - 1)))
    /\ [](V_pc = "done" /\ V_div # 0 /\ V_page.nodes[V_div].has_table
            => V_result["sukiruhatsudou"] = C3_MessageOf(C3_FirstStored(Len(V_rows))))
    /\ [][(V_RowStep /\ C3_GenericMatch(V_rows[V_r]) /\ C3_FirstStored(V_r - 1) # 0)
            => IF C3_HasSpMarker(V_rows[V_r])
               THEN V_data' = [V_data EXCEPT !["SPhatsudou"] = Strip(V_rows[V_r][2])]
               ELSE V_data' = V_data]_vars

\* Two generic-matching rows were classified, the first with an empty trimmed
\* message and the second with a message, which is the one returned.
C3_Witness ==
    /\ V_pc = "done" /\ Len(V_rows) >= 2
    /\ C3_GenericMatch(V_rows[1]) /\ Strip(V_rows[1][2]) = <<>>
    /\ C3_GenericMatch(V_rows[2]) /\ Strip(V_rows[2][2]) # <<>>
    /\ V_result["sukiruhatsudou"] = Strip(V_rows[2][2])

C4_Unguarded ==
    { "nyuushuji", "tokkun1kaime", "tokkun2kaime", "tokkunji", "raibukaishi",
      "sukiruhatsudou(kurosuboisu)", "SPhatsudou" }

\* The rows classified so far into category c, by the branch each took.
C4_RowsOf(c) == {k \in 1..Len(V_taken) : V_taken[k] = c}

C4_Max(S) == CHOOSE i \in S : \A j \in S : j <= i

C4_AllMarkers ==
    { <<"nyuushu", "ji">>, <<"tokkun", "1", "kaime">>, <<"tokkun", "2", "kaime">>,
      <<"tokkun", "ji">>, <<"raibu", "kaishi">>, <<"kurosu", "boisu">>,
      <<"sukiru", "hatsudou">>, <<"SP", "hatsudou">>, <<"SP", " ", "sukiru", "hatsudou">> }

\* C4: each of the seven unguarded slots holds the message of the last row
\* classified into its category (even an empty one), and the empty string if
\* no row was; rows with fewer than 2 cells and rows whose label matches no
\* rule are classified into no category, so they change none of these slots;
\* the record returned after the table is the record so built.
C4_LastWriteWins ==
    /\ \A c \in C4_Unguarded :
          V_data[c] = IF C4_RowsOf(c) = {} THEN <<>>
                      ELSE Strip(V_rows[C4_Max(C4_RowsOf(c))][2])
    /\ \A k \in 1..Len(V_taken) :
          /\ Len(V_rows[k]) < 2 => V_taken[k] = "short"
          /\ (Len(V_rows[k]) >= 2 /\ \A m \in C4_AllMarkers : ~Contains(Strip(V_rows[k][1]), m))
                => V_taken[k] = "none"
    /\ Len(V_taken) = (IF V_r = 0 THEN 0 ELSE V_r - 1)
    /\ (V_pc = "done" /\ V_page.outcome = "ok") => V_result = V_data

\* Two rows went to one unguarded category, the first with a message and the
\* last with an empty one, and the slot was returned empty.
C4_Witness ==
    /\ V_pc = "done"
    /\ \E c \in C4_Unguarded :
          /\ Cardinality(C4_RowsOf(c)) = 2
          /\ \E k \in C4_RowsOf(c) : k # C4_Max(C4_RowsOf(c)) /\ Strip(V_rows[k][2]) # <<>>
          /\ Strip(V_rows[C4_Max(C4_RowsOf(c))][2]) = <<>>
          /\ V_result[c] = <<>>

C5_Keys ==
    { "nyuushuji", "tokkunji", "tokkun1kaime", "tokkun2kaime", "raibukaishi",
      "sukiruhatsudou", "sukiruhatsudou(kurosuboisu)", "SPhatsudou" }

C10_Matches(node) ==
    /\ node.kind = "h" /\ node.level \in {2, 3, 4}
    /\ Contains(node.text, <<"enshutsu">>) /\ Contains(node.text, <<"boisu">>)

\* C5: extract_voice_data ends on every path by returning a record (it never
\* stops anywhere else), the record returned has exactly the 8 category keys,
\* and all 8 values are empty when the fetch failed or no heading contains
\* both markers.
C5_RecordShape ==
    /\ V_pc \notin {"done", "idle"} => ENABLED V_Next
    /\ V_pc = "done" =>
          /\ DOMAIN V_result = C5_Keys
          /\ ( \/ V_page.outcome = "error"
               \/ \A i \in 1..Len(V_page.nodes) : ~C10_Matches(V_page.nodes[i]) )
                => \A k \in C5_Keys : V_result[k] = <<>>

\* The fetch failed and the empty record was returned.
C5_Witness ==
    V_pc = "done" /\ V_page.outcome = "error" /\ \A k \in C5_Keys : V_result[k] = <<>>

\* The first heading with both markers (0: none).
C10_First == MinOf({i \in 1..Len(V_page.nodes) : C10_Matches(V_page.nodes[i])})

C10_AllEmpty == \A k \in C5_Keys : V_result[k] = <<>>

\* C10 (as claimed): the first heading with both markers is the one selected;
\* the block used is the element right after it, when that is a div; no div
\* that follows another, later sibling is ever used; without a matching
\* heading or such a block the record returned is all-empty.
C10_ImmediateSibling ==
    (V_pc \in {"div", "rows", "done"} /\ V_page.outcome = "ok") =>
        /\ V_section = C10_First
        /\ V_div = IF /\ V_section # 0
                      /\ V_section + 1 <= Len(V_page.nodes)
                      /\ V_page.nodes[V_section + 1].kind = "div"
                   THEN V_section + 1 ELSE 0
        /\ (V_pc = "done" /\ V_div = 0) => C10_AllEmpty

\* C10 (amended): the first heading with both markers is the one selected
\* and later matching headings are never consulted; the block used is the
\* first div among the siblings that follow that heading, whatever elements
\* (later headings included) stand in between; without a matching heading or
\* a following sibling div the record returned is all-empty.
C10_FirstFollowingDiv ==
    (V_pc \in {"div", "rows", "done"} /\ V_page.outcome = "ok") =>
        /\ V_section = C10_First
        /\ V_div = IF V_section = 0 THEN 0
                   ELSE MinOf({j \in (V_section + 1)..Len(V_page.nodes) :
                                    V_page.nodes[j].kind = "div"})
        /\ (V_pc = "done" /\ V_div = 0) => C10_AllEmpty

\* The rows of a div that follows a later heading were classified.
C10_Witness ==
    /\ V_pc = "done" /\ V_section # 0 /\ V_div > V_section + 1
    /\ \E j \in (V_section + 1)..(V_div - 1) : V_page.nodes[j].kind = "h"
    /\ ~C10_AllEmpty

-----------------------------------------------------------------------------
(* The functions as wholes, for their callers *)

\* line 68-91 of fetch_card_text.py: the loop over the tables from the k-th on
RECURSIVE FindCardTableFrom(_, _, _)
FindCardTableFrom(soup, tables, k) ==
    IF k > Len(tables) THEN 0
    ELSE IF HasRequired(soup, tables[k]) /\ HasOptional(soup, tables[k]) THEN tables[k]
    ELSE IF HeadingMatches(soup, tables[k]) THEN tables[k]
    ELSE FindCardTableFrom(soup, tables, k + 1)

FindCardTable(soup) == FindCardTableFrom(soup, FindAllTables(soup, 1), 1)

\* line 119-133 of fetch_card_text.py: the loop over the rows from the r-th on
RECURSIVE ParseRowsFrom(_, _, _, _)
ParseRowsFrom(headers, table, r, cards) ==
    IF r > Len(table) THEN cards
    ELSE IF Len(table[r]) = 0 THEN ParseRowsFrom(headers, table, r + 1, cards)
    ELSE ParseRowsFrom(headers, table, r + 1,
                       AppendCard(cards, CardData(headers, table[r], 1, EmptyDict)))

ParseCardTable(table) ==
    LET headers == HeaderRow(table)
    IN  IF headers = <<>> THEN <<>> ELSE ParseRowsFrom(headers, table, 2, <<>>)

\* line 35-38 of fetch_voice_data.py: the first heading that matches, 0 if none
RECURSIVE FirstVoiceHeading(_, _, _)
FirstVoiceHeading(nodes, headers, h) ==
    IF h > Len(headers) THEN 0
    ELSE IF IsVoiceHeading(nodes[headers[h]]) THEN headers[h]
    ELSE FirstVoiceHeading(nodes, headers, h + 1)

\* line 51-73 of fetch_voice_data.py: the loop over the rows from the r-th on
RECURSIVE ClassifyRowsFrom(_, _, _)
ClassifyRowsFrom(voice_data, rows, r) ==
    IF r > Len(rows) THEN voice_data
    ELSE ClassifyRowsFrom(ClassifyRow(voice_data, rows[r]), rows, r + 1)

ExtractVoiceData(page) ==
    IF page.outcome = "error" THEN ExceptResult
    ELSE LET voice_section == FirstVoiceHeading(page.nodes, FindAllHeadings(page.nodes, 1), 1)
         IN  IF voice_section = 0 THEN InitialVoiceData
             ELSE LET div == FindNextSiblingDiv(page.nodes, voice_section)
                  IN  IF div = 0 THEN InitialVoiceData
                      ELSE IF ~page.nodes[div].has_table THEN InitialVoiceData
                      ELSE ClassifyRowsFrom(InitialVoiceData, page.nodes[div].table, 1)

\* The stepwise models end where the whole functions do.
Agree_FindCardTable == L_pc = "done" => L_table = FindCardTable(L_soup)
Agree_ParseCardTable == P_pc = "done" => P_cards = ParseCardTable(P_table)
Agree_ExtractVoiceData == V_pc = "done" => V_result = ExtractVoiceData(V_page)

-----------------------------------------------------------------------------
(* The pipeline: main.py *)

MaxCards == 2

member_name == <<"Katsuragi", "Izumi">>
base_url == <<"https://wikiwiki.jp/llll_wiki/">>

\* Tokens that urllib's quote leaves as they are (ASCII letters and digits).
Unreserved == {"n", "1", "2", "9", "R", "SR"}

\* quote(page_name.encode('utf-8')): any other token is percent-encoded.
RECURSIVE Quote(_)
Quote(s) ==
    IF s = <<>> THEN <<>>
    ELSE (IF Head(s) \in Unreserved THEN <<Head(s)>> ELSE <<"%", Head(s)>>) \o Quote(Tail(s))

\* card_name.replace('/', fullwidth slash)
RECURSIVE ReplaceSlash(_)
ReplaceSlash(s) ==
    IF s = <<>> THEN <<>>
    ELSE <<IF Head(s) = "/" THEN "fullwidth/" ELSE Head(s)>> \o ReplaceSlash(Tail(s))

\* line 164-183 of fetch_card_text.py
GenerateCardLink(card_name, member) ==
    base_url \o Quote(<<"fullwidth[">> \o ReplaceSlash(card_name) \o <<"fullwidth]">> \o member)

\* dict.get(key, '')
DictGet(d, key) == IF key \in DOMAIN d THEN d[key] ELSE <<>>

\* line 201-215 of fetch_card_text.py: the rows save_to_csv writes
RECURSIVE CsvRows(_, _, _)
CsvRows(cards, member, i) ==
    IF i > Len(cards) THEN <<>>
    ELSE LET card_name == DictGet(cards[i], th_name)
             rarity == DictGet(cards[i], th_rarity)
         IN  (IF card_name = <<>> THEN <<>>
              ELSE << [member |-> member, rarity |-> rarity, name |-> card_name,
                       link |-> GenerateCardLink(card_name, member)] >>)
             \o CsvRows(cards, member, i + 1)

\* pandas reads an empty field as NaN and writes NaN as an empty field (the
\* inference of numeric column types is not modelled).
NaN == <<"NaN">>
ReadField(v) == IF v = <<>> THEN NaN ELSE v
WriteField(v) == IF v = NaN THEN <<>> ELSE v

\* line 57-67 of main.py: the frame read back, with the 8 new columns
ReadCsv(rows) ==
    [i \in 1..Len(rows) |->
        [member |-> ReadField(rows[i].member), rarity |-> ReadField(rows[i].rarity),
         name |-> ReadField(rows[i].name), link |-> ReadField(rows[i].link),
         voice |-> [k \in VoiceKeys |-> <<>>]]]

\* line 86 of main.py: the rows df.to_csv writes
ToCsv(df) ==
    [i \in 1..Len(df) |->
        [member |-> WriteField(df[i].member), rarity |-> WriteField(df[i].rarity),
         name |-> WriteField(df[i].name), link |-> WriteField(df[i].link),
         voice |-> [k \in VoiceKeys |-> WriteField(df[i].voice[k])]]]

\* A mutation of DfAt: the value is assigned to the whole column.
DfColumn(df, index, voice_data) ==
    [i \in 1..Len(df) |->
        [df[i] EXCEPT !.voice = [k \in VoiceKeys |->
                                    IF k \in DOMAIN voice_data THEN voice_data[k] ELSE @[k]]]]

\* line 77-78 of main.py: df.at[index, key] = value for every key of voice_data
DfAt(df, index, voice_data) ==
    [df EXCEPT ![index].voice = [k \in VoiceKeys |->
                                    IF k \in DOMAIN voice_data THEN voice_data[k] ELSE @[k]]]

\* line 137-161 of fetch_card_text.py
FetchCards(listing) ==
    IF listing.outcome = "error" THEN <<>>
    \* `table = find_card_table(soup)` is bound once, then parsed (line 151-159)
    ELSE CHOOSE cards \in
             { IF table = 0 THEN <<>> ELSE ParseCardTable(listing.soup[table].rows) :
                 table \in {FindCardTable(listing.soup)} } : TRUE

\* A mutation of NoCards: the test is for None, which fetch_cards never returns.
CardsIsNone(cards) == FALSE

\* line 46 of main.py: `if not cards`
NoCards(cards) == cards = <<>>

CardTable(header, data) == [kind |-> "table", ths |-> header, rows |-> <<header>> \o data]

\* The data rows of a listing table.
CardRows ==
    { << <<"R">>, <<" ", "n", "1", " ">> >>,
      << <<"SR">>, <<"n", "/", "2">>, <<"9">> >>,
      << <<"R">>, <<>> >>,
      <<>> }

CardHeaders ==
    { <<th_rarity, th_name, <<"sumairu">> >>,
      <<th_rarity, <<"bikou">> >>,
      <<>> }

OkListing(soup) == [outcome |-> "ok", soup |-> soup]
\* fetch_page caught a RequestException
ErrorListing == [outcome |-> "error", soup |-> <<>>]

Listings ==
    {ErrorListing, OkListing(<<Heading(2, <<"gaiyou">>)>>),
     OkListing(<<Heading(2, <<"gaiyou">>), CardTable(<< <<"bikou">> >>, <<>>)>>)}
    \cup
    { OkListing(<<Heading(3, <<"jissou", "kaado", "ichiran">>), CardTable(h, d)>>) :
        h \in CardHeaders, d \in SeqsUpTo(CardRows, MaxCards) }

\* What the wiki may answer to the request for a card's page.
DetailPages ==
    { ErrorPage,
      OkPage(<<HNode(2, <<"sukiru">>), DivNode(TRUE, << <<mk_raibu, <<"m2">> >> >>)>>),
      OkPage(<<HNode(2, <<"enshutsu", "/", "boisu">>),
               DivNode(TRUE, << <<mk_nyuushuji, <<"m1">> >> >>)>>),
      OkPage(<<HNode(3, <<"enshutsu", "/", "boisu">>),
               DivNode(TRUE, << <<mk_sukiru, <<"m2">> >>, <<mk_sp, <<"m1">> >> >>)>>) }

NoFile == [written |-> FALSE, rows |-> <<>>]
File(rows) == [written |-> TRUE, rows |-> rows]

M_Idle ==
    /\ M_listing = ErrorListing /\ M_pc = "idle" /\ M_cards = <<>> /\ M_csv = NoFile
    /\ M_df = <<>> /\ M_index = 0 /\ M_fetched = <<>> /\ M_served = <<>> /\ M_out = NoFile

M_Start ==
    /\ M_listing \in Listings
    /\ M_pc = "fetch_cards"
    /\ M_cards = <<>> /\ M_csv = NoFile /\ M_df = <<>> /\ M_index = 0
    /\ M_fetched = <<>> /\ M_served = <<>> /\ M_out = NoFile

\* line 43-44
M_FetchCards ==
    /\ M_pc = "fetch_cards"
    /\ M_cards' = FetchCards(M_listing)
    /\ M_pc' = "check"
    /\ UNCHANGED <<M_listing, M_csv, M_df, M_index, M_fetched, M_served, M_out, M_others>>

\* line 46-48
M_Halt ==
    /\ M_pc = "check"
    /\ NoCards(M_cards)
    /\ M_pc' = "halted"
    /\ UNCHANGED <<M_listing, M_cards, M_csv, M_df, M_index, M_fetched, M_served, M_out, M_others>>

\* line 50-52
M_SaveCsv ==
    /\ M_pc = "check"
    /\ ~NoCards(M_cards)
    /\ M_csv' = File(CsvRows(M_cards, member_name, 1))
    /\ M_pc' = "read"
    /\ UNCHANGED <<M_listing, M_cards, M_df, M_index, M_fetched, M_served, M_out, M_others>>

\* line 57-70
M_ReadCsv ==
    /\ M_pc = "read"
    /\ M_df' = ReadCsv(M_csv.rows)
    /\ M_index' = 1
    /\ M_pc' = "loop"
    /\ UNCHANGED <<M_listing, M_cards, M_csv, M_fetched, M_served, M_out, M_others>>

\* line 71-81: one entity; the wiki answers with any of the pages
M_Voice ==
    /\ M_pc = "loop"
    /\ M_index <= Len(M_df)
    /\ \E page \in DetailPages :
          /\ M_df' = DfAt(M_df, M_index, ExtractVoiceData(page))
          /\ M_served' = Append(M_served, page)
    /\ M_fetched' = Append(M_fetched, M_df[M_index].link)
    /\ M_index' = M_index + 1
    /\ UNCHANGED <<M_listing, M_pc, M_cards, M_csv, M_out, M_others>>

\* line 83-86
M_WriteOutput ==
    /\ M_pc = "loop"
    /\ M_index > Len(M_df)
    /\ M_out' = File(ToCsv(M_df))
    /\ M_pc' = "done"
    /\ UNCHANGED <<M_listing, M_cards, M_csv, M_df, M_index, M_fetched, M_served, M_others>>

M_Next ==
    \/ M_FetchCards
    \/ M_Halt
    \/ M_SaveCsv
    \/ M_ReadCsv
    \/ M_Voice
    \/ M_WriteOutput

\* The entity rows the aggregation loop is given: the listing CSV as read.
C6_Input == ReadCsv(M_csv.rows)

C6_Field(v) == IF v = <<"NaN">> THEN <<>> ELSE v

C6_Empty == [k \in C5_Keys |-> <<>>]

\* What each page the wiki may serve holds in its voice section.
C6_VoiceOf(page) ==
    IF page.outcome = "error" THEN C6_Empty
    ELSE IF page.nodes[1].text = <<"sukiru">> THEN C6_Empty
    ELSE IF page.nodes[1].level = 2 THEN [C6_Empty EXCEPT !["nyuushuji"] = <<"m1">>]
    ELSE [C6_Empty EXCEPT !["sukiruhatsudou"] = <<"m2">>, !["SPhatsudou"] = <<"m1">>]

C9_NoTableFound ==
    M_listing.outcome = "ok" =>
       \A i \in 1..Len(M_listing.soup) :
          M_listing.soup[i].kind = "table"
              => ~(Rule_A(M_listing.soup, i) \/ Rule_B(M_listing.soup, i))

\* The located table yields no record: its first row has no cell, or no row
\* after the first has one.
C9_NoRecords ==
    /\ M_listing.outcome = "ok"
    /\ \E i \in 1..Len(M_listing.soup) :
          /\ M_listing.soup[i].kind = "table"
          /\ Rule_A(M_listing.soup, i) \/ Rule_B(M_listing.soup, i)
          /\ \A j \in 1..(i - 1) :
                M_listing.soup[j].kind = "table"
                    => ~(Rule_A(M_listing.soup, j) \/ Rule_B(M_listing.soup, j))
          /\ LET rows == M_listing.soup[i].rows
             IN  \/ Len(rows[1]) = 0
                 \/ \A r \in 2..Len(rows) : Len(rows[r]) = 0

C9_NothingDone == ~M_csv.written /\ M_fetched = <<>> /\ ~M_out.written

\* C9 (as claimed): the run halts before the detail stage, with nothing
\* written or fetched, when the listing-stage locator finds no table, and
\* under no other condition; in every other case it iterates the entities
\* and writes the output.
C9_OnlyHardStop ==
    /\ M_pc \notin {"halted", "done", "idle"} => ENABLED M_Next
    /\ M_pc = "halted" => C9_NothingDone /\ C9_NoTableFound
    /\ M_pc = "done" => M_csv.written /\ M_out.written /\ ~C9_NoTableFound

\* C9 (amended): the run halts before the detail stage, with nothing written
\* or fetched, exactly when fetch_cards returns no record: the listing fetch
\* failed, or the locator found no table, or the located table yields no
\* record; in every other case the listing CSV is written, one detail fetch
\* is issued per row of it, and the output is written.
C9_HaltsIffNoCards ==
    /\ M_pc \notin {"halted", "done", "idle"} => ENABLED M_Next
    /\ M_pc = "halted" =>
          /\ C9_NothingDone
          /\ C9_NoTableFound \/ C9_NoRecords
    /\ M_pc = "done" =>
          /\ M_csv.written /\ M_out.written
          /\ Len(M_fetched) = Len(M_csv.rows) /\ Len(M_out.rows) = Len(M_csv.rows)
          /\ ~(C9_NoTableFound \/ C9_NoRecords)

\* The run halted although the locator had found a table.
C9_Witness ==
    /\ M_pc = "halted" /\ C9_NothingDone
    /\ M_listing.outcome = "ok" /\ ~C9_NoTableFound

-----------------------------------------------------------------------------
(* Link verification: verify_link and verify_all_links *)

MaxLinks == 2

\* The rows of the CSV: card name, rarity and link.
LinkRows ==
    { [name |-> <<"n", "1">>, rarity |-> <<"R">>, link |-> <<"https://wikiwiki.jp/llll_wiki/", "n", "1">>],
      [name |-> <<"n", "2">>, rarity |-> <<"SR">>, link |-> <<"https://wikiwiki.jp/llll_wiki/", "n", "2">>] }

\* What a request may end in: a response with a status code, or a
\* requests.RequestException.
Status(code) == [kind |-> "status", code |-> code]
Raised == [kind |-> "raised", code |-> 0]
Replies == {Status(100), Status(200), Status(399), Status(400), Status(404), Raised}

error_text == <<"timed", "out">>

\* A mutation of NeedsGet: the boundary status is left out.
NeedsGetAbove(status_code) == status_code > 400

\* line 45
NeedsGet(status_code) == status_code >= 400

\* line 48
IsSuccess(status_code) == 200 <= status_code /\ status_code < 400

\* line 49 and line 51: what verify_link returns
Returned(reply) ==
    IF reply.kind = "raised"
    THEN [success |-> FALSE, status_code |-> 0, error_msg |-> error_text]
    ELSE [success |-> IsSuccess(reply.code), status_code |-> reply.code, error_msg |-> <<>>]

NoReturn == [success |-> FALSE, status_code |-> 0, error_msg |-> <<>>]
EmptyResults == [success |-> <<>>, failed |-> <<>>, error |-> <<>>]

K_Idle ==
    /\ K_data = <<>> /\ K_i = 0 /\ K_pc = "idle" /\ K_log = <<>>
    /\ K_ret = NoReturn /\ K_results = EmptyResults

K_Start ==
    /\ K_data \in SeqsUpTo(LinkRows, MaxLinks)
    /\ K_i = 1
    /\ K_pc = "head"
    /\ K_log = <<>>
    /\ K_ret = NoReturn
    /\ K_results = EmptyResults

\* line 43-45, 48-51: the HEAD request of row K_i and what follows from it
K_Head ==
    /\ K_pc = "head"
    /\ K_i <= Len(K_data)
    /\ \E reply \in Replies :
          /\ K_log' = Append(K_log, [row |-> K_i, method |-> "HEAD", reply |-> reply])
          /\ IF reply.kind = "status" /\ NeedsGet(reply.code)
             THEN K_pc' = "get" /\ K_ret' = K_ret
             ELSE K_pc' = "bucket" /\ K_ret' = Returned(reply)
    /\ UNCHANGED <<K_data, K_i, K_results, K_others>>

\* line 46, 48-51: the GET request
K_Get ==
    /\ K_pc = "get"
    /\ \E reply \in Replies :
          /\ K_log' = Append(K_log, [row |-> K_i, method |-> "GET", reply |-> reply])
          /\ K_ret' = Returned(reply)
    /\ K_pc' = "bucket"
    /\ UNCHANGED <<K_data, K_i, K_results, K_others>>

\* line 82-84
K_Success ==
    /\ K_pc = "bucket"
    /\ K_ret.success
    /\ K_results' = [K_results EXCEPT !.success = Append(@, K_data[K_i])]
    /\ K_i' = K_i + 1
    /\ K_pc' = "head"
    /\ UNCHANGED <<K_data, K_log, K_ret, K_others>>

\* line 85-87
K_Failed ==
    /\ K_pc = "bucket"
    /\ ~K_ret.success
    /\ K_ret.status_code > 0
    /\ K_results' = [K_results EXCEPT !.failed =
            Append(@, [row |-> K_data[K_i], status |-> K_ret.status_code])]
    /\ K_i' = K_i + 1
    /\ K_pc' = "head"
    /\ UNCHANGED <<K_data, K_log, K_ret, K_others>>

\* line 88-90
K_Error ==
    /\ K_pc = "bucket"
    /\ ~K_ret.success
    /\ ~(K_ret.status_code > 0)
    /\ K_results' = [K_results EXCEPT !.error =
            Append(@, [row |-> K_data[K_i], error |-> K_ret.error_msg])]
    /\ K_i' = K_i + 1
    /\ K_pc' = "head"
    /\ UNCHANGED <<K_data, K_log, K_ret, K_others>>

\* line 96-116: the summary is printed
K_Summary ==
    /\ K_pc = "head"
    /\ K_i > Len(K_data)
    /\ K_pc' = "done"
    /\ UNCHANGED <<K_data, K_i, K_log, K_ret, K_results, K_others>>

K_Next ==
    \/ K_Head
    \/ K_Get
    \/ K_Success
    \/ K_Failed
    \/ K_Error
    \/ K_Summary

\* The requests issued for row j, in the order issued.
C8_Requests(j) == SelectSeq(K_log, LAMBDA e : e.row = j)

\* The rows whose verification is complete.
C8_Verified == 1..(K_i - 1)

C8_Final(j) == C8_Requests(j)[Len(C8_Requests(j))].reply

C8_Succeeded(j) ==
    C8_Final(j).kind = "status" /\ C8_Final(j).code >= 200 /\ C8_Final(j).code < 400
C8_Errored(j) == C8_Final(j).kind = "raised"

\* The rows of 1..n that satisfy P, in row order, as the entries Entry makes
\* of them.
C8_Bucket(n, P(_), Entry(_)) ==
    LET S == {j \in 1..n : P(j)}
    IN  [k \in 1..Cardinality(S) |->
            Entry(CHOOSE j \in S : Cardinality({m \in S : m <= j}) = k)]

C8_ProtocolOf(j) ==
    LET q == C8_Requests(j)
    IN  /\ Len(q) \in {1, 2}
        /\ q[1].method = "HEAD"
        /\ Len(q) = 2 <=> (q[1].reply.kind = "status" /\ q[1].reply.code >= 400)
        /\ Len(q) = 2 => q[2].method = "GET"

\* C8: for each address a HEAD is issued first; a GET is issued at most
\* once, and only after a HEAD answered with a status >= 400; success is
\* reported iff the final status is in [200,400); a transport failure of
\* either request gives (failure, 0, error text); every row ends in exactly
\* one of the three buckets, so their sizes sum to the number of rows
\* verified; and the rows are not altered.
C8_ProbeThenRetryOnce ==
    /\ [](K_pc # "idle" =>
            /\ \A j \in C8_Verified : C8_ProtocolOf(j)
            /\ \A e \in 1..Len(K_log) : K_log[e].row \in 1..K_i /\ K_log[e].row <= Len(K_data)
            /\ \A e \in 1..(Len(K_log) - 1) : K_log[e].row <= K_log[e + 1].row
            /\ K_pc = "get" =>
                  /\ Len(C8_Requests(K_i)) = 1
                  /\ C8_Requests(K_i)[1].method = "HEAD"
                  /\ C8_Requests(K_i)[1].reply.kind = "status"
                  /\ C8_Requests(K_i)[1].reply.code >= 400
            /\ K_pc = "bucket" =>
                  /\ C8_ProtocolOf(K_i)
                  /\ K_ret.success <=> C8_Succeeded(K_i)
                  /\ C8_Errored(K_i) =>
                        ~K_ret.success /\ K_ret.status_code = 0 /\ K_ret.error_msg # <<>>
                  /\ ~C8_Errored(K_i) => K_ret.status_code = C8_Final(K_i).code
            /\ K_results.success =
                  C8_Bucket(K_i - 1, C8_Succeeded, LAMBDA j : K_data[j])
            /\ K_results.error =
                  C8_Bucket(K_i - 1, C8_Errored,
                            LAMBDA j : [row |-> K_data[j], error |-> <<"timed", "out">>])
            /\ K_results.failed =
                  C8_Bucket(K_i - 1, LAMBDA j : ~C8_Succeeded(j) /\ ~C8_Errored(j),
                            LAMBDA j : [row |-> K_data[j], status |-> C8_Final(j).code])
            /\ Len(K_results.success) + Len(K_results.failed) + Len(K_results.error) = K_i - 1
            /\ K_pc = "done" => K_i - 1 = Len(K_data))
    /\ [][K_data' = K_data]_vars

\* Two rows were verified: one succeeded by the GET that followed a refused
\* HEAD, the other ended in a transport failure.
C8_Witness ==
    /\ K_pc = "done" /\ Len(K_data) = 2
    /\ \E j \in 1..2 : Len(C8_Requests(j)) = 2 /\ C8_Succeeded(j)
    /\ Len(K_results.success) = 1 /\ Len(K_results.error) = 1

-----------------------------------------------------------------------------
(* Specifications *)

InitLocator == L_Start /\ P_Idle /\ V_Idle /\ M_Idle /\ K_Idle
SpecLocator == InitLocator /\ [][L_Next]_vars

InitParser == P_Start /\ L_Idle /\ V_Idle /\ M_Idle /\ K_Idle
SpecParser == InitParser /\ [][P_Next]_vars

InitVoice == V_Start /\ L_Idle /\ P_Idle /\ M_Idle /\ K_Idle
SpecVoice == InitVoice /\ [][V_Next]_vars

InitMain == M_Start /\ L_Idle /\ P_Idle /\ V_Idle /\ K_Idle
SpecMain == InitMain /\ [][M_Next]_vars

InitLinks == K_Start /\ L_Idle /\ P_Idle /\ V_Idle /\ M_Idle
SpecLinks == InitLinks /\ [][K_Next]_vars

====
